---- MODULE Spec2Model ----
(***************************************************************************)
(* Model of the ODBC DSN Manager (src/odbc-driver-administrator.py): the   *)
(* INI store engine (read_ini_file, write_ini_file), the DSN listing       *)
(* (list_dsns_grouped) and the connection test (test_dsn and its two       *)
(* backends).  Text is modelled character by character: a string is a      *)
(* sequence of one-character strings, a file is the sequence of lines that *)
(* Python's file iteration yields.                                         *)
(***************************************************************************)
EXTENDS Integers, Sequences, FiniteSets, TLC

\* ------------------------------------------------------------------ bounds

\* Longest file, in lines, given to read_ini_file in SpecParse.
MaxLines == 4

\* ------------------------------------------------------------- characters

\* Printable ASCII in code-point order, from U+0020 to U+007E ("bq" stands
\* for the grave accent U+0060, which a TLA+ string cannot hold).
Ascii ==
  << " ", "!", "\"", "#", "$", "%", "&", "'", "(", ")", "*", "+", ",", "-", ".", "/",
     "0", "1", "2", "3", "4", "5", "6", "7", "8", "9", ":", ";", "<", "=", ">", "?",
     "@", "A", "B", "C", "D", "E", "F", "G", "H", "I", "J", "K", "L", "M", "N", "O",
     "P", "Q", "R", "S", "T", "U", "V", "W", "X", "Y", "Z", "[", "\\", "]", "^", "_",
     "bq", "a", "b", "c", "d", "e", "f", "g", "h", "i", "j", "k", "l", "m", "n", "o",
     "p", "q", "r", "s", "t", "u", "v", "w", "x", "y", "z", "{", "|", "}", "~" >>

\* ord(c): the code point Python compares strings by.
CodePoint(c) == 31 + (CHOOSE i \in 1..Len(Ascii) : Ascii[i] = c)

\* str.isspace for one character (the model's texts hold no other blank).
IsSpace(c) == c \in {" ", "\t", "\n", "\r"}

\* str.lower for one character.
LowerChar(c) ==
  IF CodePoint(c) >= 65 /\ CodePoint(c) <= 90 THEN Ascii[CodePoint(c) - 31 + 32] ELSE c

\* str.upper for one character.
UpperChar(c) ==
  IF CodePoint(c) >= 97 /\ CodePoint(c) <= 122 THEN Ascii[CodePoint(c) - 31 - 32] ELSE c

\* ---------------------------------------------------------------- strings

Lower(s) == [i \in 1..Len(s) |-> LowerChar(s[i])]

Upper(s) == [i \in 1..Len(s) |-> UpperChar(s[i])]

RECURSIVE LStrip(_)
LStrip(s) == IF s # <<>> /\ IsSpace(Head(s)) THEN LStrip(Tail(s)) ELSE s

RECURSIVE RStrip(_)
RStrip(s) ==
  IF s # <<>> /\ IsSpace(s[Len(s)]) THEN RStrip(SubSeq(s, 1, Len(s) - 1)) ELSE s

\* str.strip()
Strip(s) == RStrip(LStrip(s))

\* str.startswith(c), str.endswith(c) for a one-character argument.
StartsWith(s, c) == s # <<>> /\ s[1] = c

EndsWith(s, c) == s # <<>> /\ s[Len(s)] = c

\* c in s
Contains(s, c) == \E i \in 1..Len(s) : s[i] = c

\* A split at the last c instead (s.rsplit(c, 1)).
SplitLast(s, c) ==
  LET i == CHOOSE j \in 1..Len(s) : s[j] = c /\ \A h \in (j + 1)..Len(s) : s[h] # c
  IN  << SubSeq(s, 1, i - 1), SubSeq(s, i + 1, Len(s)) >>

\* s.split(c, 1): the parts before and after the first c.
SplitFirst(s, c) ==
  LET i == CHOOSE j \in 1..Len(s) : s[j] = c /\ \A h \in 1..(j - 1) : s[h] # c
  IN  << SubSeq(s, 1, i - 1), SubSeq(s, i + 1, Len(s)) >>

\* str(n) for n >= 0.
RECURSIVE Str(_)
Str(n) ==
  IF n < 10 THEN << Ascii[17 + n] >> ELSE Str(n \div 10) \o << Ascii[17 + (n % 10)] >>

\* s < t as Python compares strings: by code point, a proper prefix first.
RECURSIVE StrLess(_, _)
StrLess(s, t) ==
  IF t = <<>> THEN FALSE
  ELSE IF s = <<>> THEN TRUE
  ELSE IF Head(s) = Head(t) THEN StrLess(Tail(s), Tail(t))
  ELSE CodePoint(Head(s)) < CodePoint(Head(t))

\* The lines of a text, as iterating a file yields them (without the "\n").
RECURSIVE SplitLines(_)
SplitLines(text) ==
  IF text = <<>> THEN <<>>
  ELSE IF Contains(text, "\n")
       THEN LET p == SplitFirst(text, "\n") IN << p[1] >> \o SplitLines(p[2])
       ELSE << text >>

\* ------------------------------------------------------------------ stores

\* A store is the dict read_ini_file builds, in insertion order: a sequence
\* of [name, items], items the section's dict as a sequence of <<key, value>>.
SectionNames(store) == [i \in 1..Len(store) |-> store[i].name]

HasSection(store, name) == \E i \in 1..Len(store) : store[i].name = name

SectionIndex(store, name) == CHOOSE i \in 1..Len(store) : store[i].name = name

HasKey(items, key) == \E i \in 1..Len(items) : items[i][1] = key

\* d.get(key, default)
DictGet(items, key, default) ==
  IF HasKey(items, key)
  THEN items[CHOOSE i \in 1..Len(items) : items[i][1] = key][2]
  ELSE default

\* d[key] = value: an existing key keeps its place, a new one goes last.
DictSet(items, key, value) ==
  IF HasKey(items, key)
  THEN [i \in 1..Len(items) |-> IF items[i][1] = key THEN << key, value >> ELSE items[i]]
  ELSE Append(items, << key, value >>)

\* store[name] = {}: an existing section is emptied in place, a new one goes
\* last.
StoreSetEmpty(store, name) ==
  IF HasSection(store, name)
  THEN [i \in 1..Len(store) |->
          IF store[i].name = name THEN [name |-> name, items |-> <<>>] ELSE store[i]]
  ELSE Append(store, [name |-> name, items |-> <<>>])

\* ------------------------------------------------------------ read_ini_file

\* The section names read_ini_file skips (the ODBC meta sections).
ReservedNames == { << "O", "D", "B", "C" >>,
                   << "O", "D", "B", "C", " ", "D", "a", "t", "a", " ",
                      "S", "o", "u", "r", "c", "e", "s" >> }

\* A counter that starts one too low.
RenamedFromZero(original, counter) == original \o << "_", "_" >> \o Str(counter - 1)

\* f"{original_name}__{counter}"
RenamedTo(original, counter) == original \o << "_", "_" >> \o Str(counter)

\* An if in place of the while: the new name is not checked again.
FreeNameOnce(store, original, name, counter) ==
  IF HasSection(store, name) THEN original \o << "_", "_" >> \o Str(counter) ELSE name

\* The while loop of the duplicate handling: the first free name among
\* original, original__1, original__2, ...
RECURSIVE FreeName(_, _, _, _)
FreeName(store, original, name, counter) ==
  IF HasSection(store, name)
  THEN FreeName(store, original, RenamedTo(original, counter), counter + 1)
  ELSE name

\* A reserved header that leaves the section before it open.
AfterReservedStaysOpen(st) == st

\* A reserved header: current_section = None, and on to the next line.
AfterReserved(st) == [st EXCEPT !.cur = <<>>]

\* One iteration of the loop over the file's lines.  st is the loop's state:
\* store (dsn_dict), cur (current_section, <<>> wrapped: << >> is None and
\* << name >> a section), warnings (the printed duplicate warnings).
ParseLine(st, raw) ==
  LET line == Strip(raw) IN
  IF line = <<>> \/ StartsWith(line, "#") \/ StartsWith(line, ";") THEN st
  ELSE IF StartsWith(line, "[") /\ EndsWith(line, "]")
  THEN LET original == Strip(SubSeq(line, 2, Len(line) - 1)) IN
       IF original \in ReservedNames THEN AfterReserved(st)
       ELSE LET name == FreeName(st.store, original, original, 1) IN
            [ store    |-> StoreSetEmpty(st.store, name),
              cur      |-> << name >>,
              warnings |-> IF name # original
                           THEN Append(st.warnings, [original |-> original, renamed |-> name])
                           ELSE st.warnings ]
  ELSE IF Contains(line, "=") /\ st.cur # <<>>
  THEN LET p == SplitFirst(line, "=")
           i == SectionIndex(st.store, st.cur[1])
       IN  [st EXCEPT !.store[i].items = DictSet(@, Strip(p[1]), Strip(p[2]))]
  ELSE st

ParseInit == [store |-> <<>>, cur |-> <<>>, warnings |-> <<>>]

RECURSIVE ParseFrom(_, _)
ParseFrom(st, lines) ==
  IF lines = <<>> THEN st ELSE ParseFrom(ParseLine(st, Head(lines)), Tail(lines))

\* read_ini_file on an existing, readable file holding these lines.
ReadIni(lines) == ParseFrom(ParseInit, lines)

\* ----------------------------------------------------------- write_ini_file

\* The options written with the other delimiter of configparser, ":".
RECURSIVE WriteItemsColon(_)
WriteItemsColon(items) ==
  IF items = <<>> THEN <<>>
  ELSE Head(items)[1] \o << " ", ":", " " >> \o Head(items)[2] \o << "\n" >>
       \o WriteItemsColon(Tail(items))

\* What config.write(f, space_around_delimiters=True) writes for one section:
\* "[name]\n", "key = value\n" per option, then an empty line.
RECURSIVE WriteItems(_)
WriteItems(items) ==
  IF items = <<>> THEN <<>>
  ELSE Head(items)[1] \o << " ", "=", " " >> \o Head(items)[2] \o << "\n" >>
       \o WriteItems(Tail(items))

RECURSIVE Serialize(_)
Serialize(store) ==
  IF store = <<>> THEN <<>>
  ELSE << "[" >> \o Head(store).name \o << "]", "\n" >>
       \o WriteItems(Head(store).items) \o << "\n" >> \o Serialize(Tail(store))

\* ------------------------------------------------------------------- inputs

\* All sequences over pool of at most n elements.
SeqsUpTo(pool, n) == UNION { [1..k -> pool] : k \in 0..n }

\* Lines of every kind read_ini_file tells apart: headers (plain, padded,
\* one that collides with a generated name, a reserved one, an unterminated
\* one), key lines (padded, with a second "=", with an empty value, with an
\* empty key, with a key that starts like a header) and a comment.
ParseLinePool ==
  { << "[", "A", "]" >>,
    << " ", "[", " ", "A", " ", "]", " " >>,
    << "[", "A", "_", "_", "1", "]" >>,
    << "[", "O", "D", "B", "C", "]" >>,
    << "[", "A" >>,
    << "[", "A", "=", "x" >>,
    << "=", "v" >>,
    << "k", "=", "v" >>,
    << " ", "k", " ", "=", " ", "v", "=", "w", " " >>,
    << "j", "=" >>,
    << ";", "k", "=", "v" >> }

\* -------------------------------------------------------------------- state

VARIABLES
  odbcini,          \* the lines of the file self.odbcini names (DSN definitions)
  odbcinst,         \* the lines of the file self.odbcinst names (driver definitions)
  has_unixodbc,     \* self.has_unixodbc
  has_iodbc,        \* self.has_iodbc
  pyodbc_installed, \* whether "import pyodbc" succeeds in this process
  pc,               \* where the program is: the operation that ran last
  dsn_dict,         \* the dict the last read_ini_file(self.odbcini) returned
  warnings,         \* the duplicate warnings that read_ini_file printed
  read_error,       \* whether that read_ini_file printed "Error reading"
  config,           \* the config the last write_ini_file was given
  driver_dsns,      \* list_dsns_grouped: the DSN names per driver
  numbered_dsns,    \* list_dsns_grouped: the list it returned
  test,             \* the last test_dsn call: its arguments, attempts and outcome
  odbcini_status,   \* odbc.ini on disk: "readable", "absent" or "unreadable"
  upsert,           \* the last add_dsn or add_driver call that reached its write
  choice,           \* the index the main menu returned last
  menu_len,         \* menu_select: len(options) of the menu on the screen, 0 without one
  current,          \* menu_select: the index under the cursor
  key,              \* menu_select: the key getch returned last
  menu_result,      \* menu_select: the value it returned
  odbcinst_selected \* whether self.odbcinst names a file (it is None when not)

files == << odbcini, odbcinst, odbcini_status, odbcinst_selected >>

env == << has_unixodbc, has_iodbc, pyodbc_installed >>

parsed == << dsn_dict, warnings, read_error >>

listing == << driver_dsns, numbered_dsns >>

session == << upsert, choice >>

cursor == << menu_len, current, key, menu_result >>

vars == << odbcini, odbcinst, has_unixodbc, has_iodbc, pyodbc_installed, pc,
           dsn_dict, warnings, read_error, config, driver_dsns, numbered_dsns, test,
           odbcini_status, upsert, choice, menu_len, current, key, menu_result,
           odbcinst_selected >>

\* The value of test before any test_dsn call.
NoTest == [status |-> "none"]

\* The value of upsert before any add_dsn or add_driver call.
NoUpsert == [kind |-> "none"]

\* The value of choice before the main menu was shown.
NoChoice == -2

\* The value of key before a key was read, and of menu_result before
\* menu_select has returned.
NoKey == "(none)"

NoResult == -2

\* ------------------------------------------------------- store operations

\* read_ini_file(filepath) for a file in one of its conditions on disk: the
\* empty dict for a file that does not exist (313-314); the parse of a file
\* that can be read; for one that cannot be opened, the handler at 358-359
\* prints the error and the dict, still empty, is returned.
ReadIniAt(status, lines) ==
  IF status = "readable"
  THEN [store |-> ReadIni(lines).store, warnings |-> ReadIni(lines).warnings, error |-> FALSE]
  ELSE [store |-> <<>>, warnings |-> <<>>, error |-> (status = "unreadable")]

\* read_ini_file(self.odbcini).
ReadIniFile ==
  /\ pc \in {"start", "written"}
  /\ dsn_dict' = ReadIniAt(odbcini_status, odbcini).store
  /\ warnings' = ReadIniAt(odbcini_status, odbcini).warnings
  /\ read_error' = ReadIniAt(odbcini_status, odbcini).error
  /\ pc' = IF pc = "start" THEN "read" ELSE "reread"
  /\ UNCHANGED << files, env, cursor, config, listing, test, session >>

\* write_ini_file(self.odbcini, config), config holding the sections just
\* read: the file is replaced by what config.write emits, or (permission
\* denied on open) left as it is and False returned.
WriteIniFile ==
  /\ pc = "read"
  /\ config' = dsn_dict
  /\ \E permitted \in BOOLEAN :
       IF permitted
       THEN /\ odbcini' = SplitLines(Serialize(dsn_dict))
            /\ odbcini_status' = IF odbcini_status = "absent" THEN "readable"
                                 ELSE odbcini_status
            /\ pc' = "written"
       ELSE /\ UNCHANGED << odbcini, odbcini_status >>
            /\ pc' = "write_failed"
  /\ UNCHANGED << odbcinst, odbcinst_selected, env, cursor, parsed, listing, test, session >>

\* The state before any operation, the two files apart.
InitRest ==
  /\ dsn_dict = <<>>
  /\ warnings = <<>>
  /\ read_error = FALSE
  /\ config = <<>>
  /\ driver_dsns = <<>>
  /\ numbered_dsns = <<>>
  /\ test = NoTest
  /\ upsert = NoUpsert
  /\ choice = NoChoice
  /\ menu_len = 0
  /\ current = 0
  /\ key = NoKey
  /\ menu_result = NoResult

\* A file that is absent or cannot be read has no content the program sees.
InitParse ==
  /\ odbcini \in SeqsUpTo(ParseLinePool, MaxLines)
  /\ odbcini_status \in {"readable", "absent", "unreadable"}
  /\ odbcini_status # "readable" => odbcini = <<>>
  /\ odbcinst = <<>>
  /\ odbcinst_selected = TRUE
  /\ has_unixodbc = TRUE /\ has_iodbc = FALSE /\ pyodbc_installed = TRUE
  /\ pc = "start"
  /\ InitRest

NextParse == ReadIniFile \/ WriteIniFile

SpecParse == InitParse /\ [][NextParse]_vars

\* ------------------------------------------------- properties of the parser

\* How the file format classifies a line, stated on the line itself.
IsCommentLine(raw) ==
  LET l == Strip(raw) IN l = <<>> \/ l[1] \in {"#", ";"}

IsHeaderLine(raw) ==
  LET l == Strip(raw) IN l # <<>> /\ l[1] = "[" /\ l[Len(l)] = "]"

HeaderName(raw) == LET l == Strip(raw) IN Strip(SubSeq(l, 2, Len(l) - 1))

IsSectionHeader(raw) == IsHeaderLine(raw) /\ HeaderName(raw) \notin ReservedNames

IsKeyLine(raw) ==
  /\ ~IsCommentLine(raw)
  /\ ~IsHeaderLine(raw)
  /\ \E p \in 1..Len(raw) : raw[p] = "="

\* The position of the first "=" of a stripped key line.
FirstEq(l) == CHOOSE p \in 1..Len(l) : l[p] = "=" /\ \A q \in 1..(p - 1) : l[q] # "="

KeyOf(raw) == LET l == Strip(raw) IN Strip(SubSeq(l, 1, FirstEq(l) - 1))

ValueOf(raw) == LET l == Strip(raw) IN Strip(SubSeq(l, FirstEq(l) + 1, Len(l)))

\* The section headers among the first n lines, and the header (of any kind)
\* that governs line i: the last one before it, 0 when there is none.
SectionHeadersUpTo(lines, n) == { h \in 1..n : IsSectionHeader(lines[h]) }

GoverningHeader(lines, i) ==
  LET hs == { h \in 1..(i - 1) : IsHeaderLine(lines[h]) }
  IN  IF hs = {} THEN 0 ELSE CHOOSE h \in hs : \A g \in hs : g <= h

\* The key lines of the body of the header at line h.
BodyKeyLines(lines, h) ==
  { i \in (h + 1)..Len(lines) : IsKeyLine(lines[i]) /\ GoverningHeader(lines, i) = h }

\* The section the header at line h opened: sections are stored in file order.
SectionOf(store, lines, h) == store[Cardinality(SectionHeadersUpTo(lines, h))]

ItemSet(items) == { items[i] : i \in 1..Len(items) }

Parsed == pc \in {"read", "reread"}

\* C1: after read_ini_file the section names are pairwise distinct and there
\* are as many sections as non-reserved header lines in the file: no header is
\* merged into or overwrites an earlier section, also when a literal header
\* N__k collides with a generated name.
C1_UniqueNamesAllHeadersKept ==
  Parsed =>
    /\ \A i, j \in 1..Len(dsn_dict) : dsn_dict[i].name = dsn_dict[j].name => i = j
    /\ Len(dsn_dict) = Cardinality(SectionHeadersUpTo(odbcini, Len(odbcini)))

\* A literal [A__1] between two [A] headers: the second [A] becomes A__2.
C1_Witness ==
  /\ pc = "read"
  /\ SectionNames(dsn_dict) = << << "A" >>, << "A", "_", "_", "1" >>, << "A", "_", "_", "2" >> >>
  /\ IsSectionHeader(odbcini[2]) /\ HeaderName(odbcini[2]) = << "A", "_", "_", "1" >>

\* The name given to the j-th occurrence of header name.
NthName(name, j) == IF j = 1 THEN name ELSE name \o << "_", "_" >> \o Str(j - 1)

\* The occurrences of header name in the file, and the one at line h's rank
\* among them.
Occurrences(lines, name) ==
  { h \in 1..Len(lines) : IsSectionHeader(lines[h]) /\ HeaderName(lines[h]) = name }

RankIn(set, h) == Cardinality({ g \in set : g <= h })

\* No header of the file is literally name__i.
NoLiteralRename(lines, name) ==
  \A h \in 1..Len(lines) :
    IsHeaderLine(lines[h]) =>
      \A i \in 1..Len(lines) : HeaderName(lines[h]) # name \o << "_", "_" >> \o Str(i)

\* name is not itself M__i for a header [M] of the file.
NotARename(lines, name) ==
  \A h \in 1..Len(lines) :
    IsHeaderLine(lines[h]) =>
      \A i \in 1..Len(lines) : name # HeaderName(lines[h]) \o << "_", "_" >> \o Str(i)

\* What C2 says of the header at line h: it became the section named after
\* its rank among the occurrences of its name, that section holds exactly the
\* keys of the key lines of its own body, and the warnings for the name are
\* one per renamed occurrence, the j-th naming N and N__j.
RenamedInOrder(h) ==
  LET name == HeaderName(odbcini[h])
      occ  == Occurrences(odbcini, name)
      sec  == SectionOf(dsn_dict, odbcini, h)
      ws   == SelectSeq(warnings, LAMBDA w : w.original = name)
  IN  /\ sec.name = NthName(name, RankIn(occ, h))
      /\ { it[1] : it \in ItemSet(sec.items) }
           = { KeyOf(odbcini[i]) : i \in BodyKeyLines(odbcini, h) }
      /\ Len(ws) = Cardinality(occ) - 1
      /\ \A j \in 1..Len(ws) : ws[j].renamed = NthName(name, j + 1)

\* C2 as claimed: when header [N] occurs k times and no header N__i occurs
\* literally, the occurrences become sections N, N__1, ..., N__(k-1) in file
\* order, each holding only the key lines that followed its own header, with
\* exactly k-1 warnings, each naming both names.
C2_Original ==
  Parsed =>
    \A h \in 1..Len(odbcini) :
      (IsSectionHeader(odbcini[h]) /\ NoLiteralRename(odbcini, HeaderName(odbcini[h])))
        => RenamedInOrder(h)

\* C2 as amended: the same, when in addition N is not itself of the form
\* M__i for a header [M] of the text (such an N can find its own name taken
\* by a renamed duplicate of M, and is then renamed too).
C2_DuplicatesRenamedInOrder ==
  Parsed =>
    \A h \in 1..Len(odbcini) :
      ( /\ IsSectionHeader(odbcini[h])
        /\ NoLiteralRename(odbcini, HeaderName(odbcini[h]))
        /\ NotARename(odbcini, HeaderName(odbcini[h])) )
        => RenamedInOrder(h)

\* [A] three times, the second with a key line: A, A__1, A__2, two warnings,
\* and the key only in A__1.
C2_Witness ==
  /\ pc = "read"
  /\ NoLiteralRename(odbcini, << "A" >>)
  /\ SectionNames(dsn_dict) = << << "A" >>, << "A", "_", "_", "1" >>, << "A", "_", "_", "2" >> >>
  /\ Len(warnings) = 2
  /\ dsn_dict[1].items = <<>> /\ dsn_dict[2].items # <<>> /\ dsn_dict[3].items = <<>>

C4_SplitAtFirstEqLastWins ==
  Parsed =>
    \A i \in 1..Len(odbcini) :
      LET h == GoverningHeader(odbcini, i) IN
      (IsKeyLine(odbcini[i]) /\ h # 0 /\ IsSectionHeader(odbcini[h])) =>
        LET same == { j \in BodyKeyLines(odbcini, h) : KeyOf(odbcini[j]) = KeyOf(odbcini[i]) }
            last == CHOOSE j \in same : \A g \in same : g <= j
        IN  << KeyOf(odbcini[i]), ValueOf(odbcini[last]) >>
              \in ItemSet(SectionOf(dsn_dict, odbcini, h).items)

\* Key k twice in one body, the later value holding an "=": k = "v=w".
C4_Witness ==
  /\ pc = "read"
  /\ Len(dsn_dict) = 1
  /\ dsn_dict[1].items = << << << "k" >>, << "v", "=", "w" >> >> >>
  /\ Cardinality({ i \in 1..Len(odbcini) : IsKeyLine(odbcini[i]) }) = 2

\* C13: read_ini_file of a file that does not exist gives the empty store,
\* no warning and no error; of a file that exists and cannot be read it gives
\* the caller something else than it gives for a file that does not exist.
C13_Original ==
  pc = "read" =>
    /\ odbcini_status = "absent" => (dsn_dict = <<>> /\ warnings = <<>> /\ ~read_error)
    /\ odbcini_status = "unreadable" => dsn_dict # ReadIniAt("absent", odbcini).store

\* The lines that are neither comment, header nor key line of a section: a
\* key line before the first header, and a line that starts a header and
\* does not end it.
MalformedLines(lines) ==
  { i \in 1..Len(lines) :
      /\ ~IsCommentLine(lines[i])
      /\ ~IsHeaderLine(lines[i])
      /\ \/ Strip(lines[i])[1] = "["
         \/ (IsKeyLine(lines[i]) /\ GoverningHeader(lines, i) = 0) }

\* The warnings that report a renamed section.
RenameWarnings == { i \in 1..Len(warnings) : warnings[i].renamed # warnings[i].original }

\* C18: every line that cannot be classified adds one warning to those of
\* the renamed sections, and the parse goes on: every section header after
\* it still opens its section.
C18_Original ==
  (Parsed /\ odbcini_status = "readable") =>
    /\ Len(warnings) = Cardinality(RenameWarnings) + Cardinality(MalformedLines(odbcini))
    /\ Len(dsn_dict) = Cardinality(SectionHeadersUpTo(odbcini, Len(odbcini)))

\* The line of the n-th section header of the file.
NthSectionHeader(lines, n) ==
  CHOOSE h \in 1..Len(lines) :
    IsSectionHeader(lines[h]) /\ Cardinality(SectionHeadersUpTo(lines, h)) = n

\* C19: a reserved header opens no section.  No section has a reserved name,
\* every option of a section comes from a key line between its own header
\* and the next header of any kind (so the lines after a reserved header go
\* to no section), and the only warnings are those of renamed sections.
C19_ReservedOpensNothing ==
  (Parsed /\ odbcini_status = "readable") =>
    /\ \A i \in 1..Len(dsn_dict) : dsn_dict[i].name \notin ReservedNames
    /\ \A h \in SectionHeadersUpTo(odbcini, Len(odbcini)) :
         \A it \in ItemSet(SectionOf(dsn_dict, odbcini, h).items) :
           \E j \in BodyKeyLines(odbcini, h) :
             KeyOf(odbcini[j]) = it[1] /\ ValueOf(odbcini[j]) = it[2]
    /\ \A i \in 1..Len(warnings) : warnings[i].original \notin ReservedNames
    /\ Len(warnings)
         = Cardinality({ n \in 1..Len(dsn_dict) :
                           dsn_dict[n].name # HeaderName(odbcini[NthSectionHeader(odbcini, n)]) })

\* [A], k=v, [ODBC], j=: section A holds k alone, and nothing is warned of.
C19_Witness ==
  /\ pc = "read"
  /\ Len(odbcini) = 4
  /\ IsHeaderLine(odbcini[3]) /\ HeaderName(odbcini[3]) \in ReservedNames
  /\ IsKeyLine(odbcini[4])
  /\ dsn_dict = << [name |-> << "A" >>, items |-> << << << "k" >>, << "v" >> >> >>] >>
  /\ warnings = <<>>

\* --------------------------------------------------------- list_dsns_grouped

\* Most sections of a DSN file given to list_dsns_grouped in SpecList.
MaxDsns == 3

\* A lookup of the key exactly as written, "Driver".
DriverOfExact(items) == DictGet(items, << "D", "r", "i", "v", "e", "r" >>, << "u", "n", "k", "n", "o", "w", "n" >>)

\* The driver of one DSN: the value of the first key that is "driver" when
\* lowered, 'unknown' when there is none.
DriverOf(items) ==
  LET hits == { i \in 1..Len(items) : Lower(items[i][1]) = << "d", "r", "i", "v", "e", "r" >> }
  IN  IF hits = {} THEN << "u", "n", "k", "n", "o", "w", "n" >>
      ELSE Strip(items[CHOOSE i \in hits : \A j \in hits : i <= j][2])

\* A group left in the order of the file.
SortNamesNot(names) == names

\* driver_dsns[driver].sort()
SortNames(names) == SortSeq(names, StrLess)

\* sorted(driver_dsns.keys())
RECURSIVE SortedKeys(_)
SortedKeys(S) ==
  IF S = {} THEN <<>>
  ELSE LET m == CHOOSE x \in S : \A y \in S : y = x \/ StrLess(x, y)
       IN  << m >> \o SortedKeys(S \ {m})

\* driver_dsns after the grouping and the sorting of each group.
GroupByDriver(store) ==
  [ d \in { DriverOf(store[i].items) : i \in 1..Len(store) } |->
      SortNames(SectionNames(SelectSeq(store, LAMBDA sec : DriverOf(sec.items) = d))) ]

\* The groups one after the other, in the order of keys.
RECURSIVE Flatten(_, _)
Flatten(groups, keys) ==
  IF keys = <<>> THEN <<>> ELSE groups[Head(keys)] \o Flatten(groups, Tail(keys))

\* list_dsns_grouped on an existing odbc.ini (with show_details or without:
\* the list returned is built from the same sorted groups in both branches).
ListDsnsGrouped ==
  /\ pc = "start"
  /\ dsn_dict' = ReadIni(odbcini).store
  /\ warnings' = ReadIni(odbcini).warnings
  /\ read_error' = FALSE
  /\ IF dsn_dict' = <<>>
     THEN driver_dsns' = <<>> /\ numbered_dsns' = <<>>
     ELSE /\ driver_dsns' = GroupByDriver(dsn_dict')
          /\ numbered_dsns' = Flatten(driver_dsns', SortedKeys(DOMAIN driver_dsns'))
  /\ pc' = "listed"
  /\ UNCHANGED << files, env, cursor, config, test, session >>

\* The lines of the files of SpecList: a header and at most one driver line
\* per section, the key in three casings.
ListHeaders ==
  { << << "[", "Z", "]" >> >>, << << "[", "A", "]" >> >>, << << "[", "B", "]" >> >> }

ListDriverLines ==
  { <<>>,
    << << "D", "r", "i", "v", "e", "r", "=", "A" >> >>,
    << << "D", "R", "I", "V", "E", "R", "=", "A" >> >>,
    << << "d", "r", "i", "v", "e", "r", " ", "=", " ", "B" >> >> }

\* The concatenation of a sequence of sequences.
RECURSIVE Concat(_)
Concat(ss) == IF ss = <<>> THEN <<>> ELSE Head(ss) \o Concat(Tail(ss))

InitList ==
  /\ odbcini_status = "readable"
  /\ odbcini \in { Concat(blocks) :
                     blocks \in SeqsUpTo({ h \o d : h \in ListHeaders, d \in ListDriverLines }, MaxDsns) }
  /\ odbcinst = <<>>
  /\ odbcinst_selected = TRUE
  /\ has_unixodbc = TRUE /\ has_iodbc = FALSE /\ pyodbc_installed = TRUE
  /\ pc = "start"
  /\ InitRest

NextList == ListDsnsGrouped

SpecList == InitList /\ [][NextList]_vars

\* ------------------------------------------------ properties of the listing

\* s before t in lexicographic order of code points.
LexLess(s, t) ==
  \E p \in 1..(Len(t)) :
    /\ \A q \in 1..(p - 1) : q <= Len(s) /\ s[q] = t[q]
    /\ \/ p = Len(s) + 1
       \/ p <= Len(s) /\ CodePoint(s[p]) < CodePoint(t[p])

\* The keys of a section that are "driver" whatever their casing.
DriverKeys(items) ==
  { i \in 1..Len(items) :
      /\ Len(items[i][1]) = 6
      /\ \A p \in 1..6 : items[i][1][p] \in { << "d", "r", "i", "v", "e", "r" >>[p],
                                             << "D", "R", "I", "V", "E", "R" >>[p] } }

\* The driver value of a section: that of its (first) driver key, 'unknown'
\* without one.
DriverValue(items) ==
  IF DriverKeys(items) = {} THEN << "u", "n", "k", "n", "o", "w", "n" >>
  ELSE items[CHOOSE i \in DriverKeys(items) : \A j \in DriverKeys(items) : i <= j][2]

DriverValueOfName(store, name) == DriverValue(store[SectionIndex(store, name)].items)

\* C5: list_dsns_grouped returns every section name of the DSN file exactly
\* once, the DSNs of a smaller driver value before those of a larger one and
\* the names ascending inside one driver.
C5_GroupedOrder ==
  pc = "listed" =>
    /\ Len(numbered_dsns) = Len(dsn_dict)
    /\ { numbered_dsns[i] : i \in 1..Len(numbered_dsns) }
         = { dsn_dict[i].name : i \in 1..Len(dsn_dict) }
    /\ \A i, j \in 1..Len(numbered_dsns) :
         i < j =>
           LET di == DriverValueOfName(dsn_dict, numbered_dsns[i])
               dj == DriverValueOfName(dsn_dict, numbered_dsns[j])
           IN  \/ LexLess(di, dj)
               \/ di = dj /\ LexLess(numbered_dsns[i], numbered_dsns[j])

\* {Z: B, A: A, B: A} in that file order gives [A, B, Z].
C5_Witness ==
  /\ pc = "listed"
  /\ SectionNames(dsn_dict) = << << "Z" >>, << "A" >>, << "B" >> >>
  /\ DriverValueOfName(dsn_dict, << "Z" >>) = << "B" >>
  /\ DriverValueOfName(dsn_dict, << "A" >>) = << "A" >>
  /\ DriverValueOfName(dsn_dict, << "B" >>) = << "A" >>
  /\ numbered_dsns = << << "A" >>, << "B" >>, << "Z" >> >>

\* C6: every DSN is in the group of the value of its driver key, whatever
\* the casing of the key, and in the group 'unknown' when it has no such key;
\* so two DSNs whose driver keys differ in casing only share a group.
C6_CaseInsensitiveDriver ==
  pc = "listed" =>
    \A i \in 1..Len(dsn_dict) :
      /\ DriverValue(dsn_dict[i].items) \in DOMAIN driver_dsns
      /\ \E p \in 1..Len(driver_dsns[DriverValue(dsn_dict[i].items)]) :
           driver_dsns[DriverValue(dsn_dict[i].items)][p] = dsn_dict[i].name

\* Keys Driver and DRIVER with the same value in one group, a DSN without a
\* driver key in the group 'unknown'.
C6_Witness ==
  /\ pc = "listed"
  /\ Len(dsn_dict) = 3
  /\ \E i, j, k \in 1..3 :
       /\ dsn_dict[i].items = << << << "D", "r", "i", "v", "e", "r" >>, << "A" >> >> >>
       /\ dsn_dict[j].items = << << << "D", "R", "I", "V", "E", "R" >>, << "A" >> >> >>
       /\ dsn_dict[k].items = <<>>
       /\ Len(driver_dsns[<< "A" >>]) = 2
       /\ driver_dsns[<< "u", "n", "k", "n", "o", "w", "n" >>] = << dsn_dict[k].name >>

\* ------------------------------------------------------------------ test_dsn

\* Most sections of the odbc.ini, and of the odbcinst.ini, of SpecTest.
MaxTestDsns == 1

MaxDrivers == 2

\* An optional string: <<>> is None, << s >> is the string s.
None == <<>>

Some(s) == << s >>

\* The truth value Python gives an optional string: None and "" are false.
Truthy(opt) == opt # None /\ opt[1] # <<>>

\* n asterisks ('*' * len(password)).
Stars(n) == [i \in 1..n |-> "*"]

\* A connection string that names the user as soon as there is one, and the
\* password only when there is one too.
ConnStrUserAlone(dsn_name, username, password) ==
  << "D", "S", "N", "=" >> \o dsn_name
    \o (IF Truthy(username) THEN << ";", "U", "I", "D", "=" >> \o username[1] ELSE <<>>)
    \o (IF Truthy(username) /\ Truthy(password)
        THEN << ";", "P", "W", "D", "=" >> \o password[1] ELSE <<>>)

\* A connection string that names a user and a password in every case.
ConnStrAlwaysCredentials(dsn_name, username, password) ==
  << "D", "S", "N", "=" >> \o dsn_name
    \o << ";", "U", "I", "D", "=" >> \o (IF username = None THEN <<>> ELSE username[1])
    \o << ";", "P", "W", "D", "=" >> \o (IF password = None THEN <<>> ELSE password[1])

\* conn_str as test_dsn_unixodbc and test_dsn_iodbc build it (and build it
\* again, the same, after a corrected driver name was found).
ConnStr(dsn_name, username, password) ==
  IF Truthy(username) /\ Truthy(password)
  THEN << "D", "S", "N", "=" >> \o dsn_name \o << ";", "U", "I", "D", "=" >> \o username[1]
         \o << ";", "P", "W", "D", "=" >> \o password[1]
  ELSE << "D", "S", "N", "=" >> \o dsn_name

\* display_conn_str: the same with the password as asterisks.
DisplayConnStr(dsn_name, username, password) ==
  IF Truthy(username) /\ Truthy(password)
  THEN << "D", "S", "N", "=" >> \o dsn_name \o << ";", "U", "I", "D", "=" >> \o username[1]
         \o << ";", "P", "W", "D", "=" >> \o Stars(Len(password[1]))
  ELSE << "D", "S", "N", "=" >> \o dsn_name

\* dsn_config[dsn_name].get('Driver', ''): the key exactly as written here.
DriverSetting(items) == DictGet(items, << "D", "r", "i", "v", "e", "r" >>, <<>>)

\* '/' in driver_setting or '\\' in driver_setting
LooksLikePath(driver_setting) == Contains(driver_setting, "/") \/ Contains(driver_setting, "\\")

\* The loop over odbcinst_config.items(): the name of the first driver whose
\* 'Driver' value equals driver_setting, None when no driver matches.
RECURSIVE CorrectDriverName(_, _)
CorrectDriverName(drivers, driver_setting) ==
  IF drivers = <<>> THEN None
  ELSE IF /\ HasKey(Head(drivers).items, << "D", "r", "i", "v", "e", "r" >>)
          /\ DictGet(Head(drivers).items, << "D", "r", "i", "v", "e", "r" >>, <<>>) = driver_setting
       THEN Some(Head(drivers).name)
       ELSE CorrectDriverName(Tail(drivers), driver_setting)

\* What pyodbc.connect and the test query can do: connect and return
\* 'Connection OK', return something else, raise pyodbc.Error, raise another
\* exception.
ConnectorOutcomes == {"ok", "unexpected_result", "pyodbc_error", "exception"}

\* One call of test_dsn_unixodbc or test_dsn_iodbc.  Without pyodbc the
\* import fails inside the outer try.  The first handler of test_dsn_unixodbc
\* is "except pyodbc.Error": evaluating that name raises UnboundLocalError,
\* which no handler takes, so the call raises.  The first handler of
\* test_dsn_iodbc is "except ImportError", which returns False.  dsn_config
\* and odbcinst_config are what the call reads from the two files.
\* The "corrected" connection string, with the driver's name spliced in.
CorrectedConnStrWithDriver(dsn_name, username, password, correct_driver_name) ==
  ConnStr(dsn_name, username, password) \o << ";", "D", "R", "I", "V", "E", "R", "=" >> \o correct_driver_name[1]

\* The "corrected" connection string built once a matching driver is found:
\* the same text as before, the driver's name is only printed.
CorrectedConnStr(dsn_name, username, password, correct_driver_name) ==
  ConnStr(dsn_name, username, password)

BackendAttempt(backend, dsn_name, username, password, outcome, dsn_config, odbcinst_config) ==
  IF ~pyodbc_installed
  THEN [ backend |-> backend, raised |-> (backend = "unixodbc"), returned |-> FALSE,
         connected |-> FALSE,
         conn_str |-> ConnStr(dsn_name, username, password),
         display_conn_str |-> DisplayConnStr(dsn_name, username, password),
         flagged |-> FALSE, correct_driver_name |-> None ]
  ELSE LET present == HasSection(dsn_config, dsn_name)
           driver_setting ==
             IF present THEN DriverSetting(dsn_config[SectionIndex(dsn_config, dsn_name)].items)
             ELSE <<>>
           flagged == present /\ LooksLikePath(driver_setting)
            correct_driver_name ==
             IF flagged THEN CorrectDriverName(odbcinst_config, driver_setting) ELSE None
       IN  [ backend |-> backend, raised |-> FALSE, returned |-> (outcome = "ok"),
             connected |-> TRUE,
             conn_str |->
               IF correct_driver_name # None
               THEN CorrectedConnStr(dsn_name, username, password, correct_driver_name)
               ELSE ConnStr(dsn_name, username, password),
             display_conn_str |-> DisplayConnStr(dsn_name, username, password),
             flagged |-> flagged,
             correct_driver_name |-> correct_driver_name ]

\* "... or success" taken as the last result alone.
LastResultOnly(result, success) == result

\* success = self.test_dsn_<backend>(...) or success
OrSuccess(result, success) == result \/ success

\* select_manager: the managers the user can be given (a cancelled menu
\* starts no test).  "None" is the choice "Both".
SelectManager ==
  IF has_unixodbc /\ has_iodbc THEN {"unixodbc", "iodbc", "None"}
  ELSE IF has_unixodbc THEN {"unixodbc"}
  ELSE {"iodbc"}

\* The credentials test_dsn ends up with: none (choice 1, or an empty user
\* name), or a user name with the password typed, which may be empty.
Credentials ==
  { [username |-> None, password |-> None],
    [username |-> Some(<< "u" >>), password |-> Some(<< "p", "w" >>)],
    [username |-> Some(<< "u" >>), password |-> Some(<<>>)] }

\* The name typed in at "Enter DSN name", when it is none of the list.
CustomName == << "Q" >>

\* Whether test_dsn tries a backend: lines 826 and 830.
TriesUnixodbc(manager) == manager = "unixodbc" \/ (manager = "None" /\ has_unixodbc)

TriesIodbc(manager) == manager = "iodbc" \/ (manager = "None" /\ has_iodbc)

\* What test holds when test_dsn ends.
TestRecord(call, status, attempts, success) ==
  [call |-> call, status |-> status, attempts |-> attempts, success |-> success]

\* test_dsn(dsn_name, manager) up to its closing menu.  show_dsn_details
\* returns the section; a missing or empty one ends the call.  Then the
\* unixODBC attempt, then the iODBC attempt, each when asked for; an attempt
\* that raises ends the call, and the program with it.  ini is what
\* read_ini_file gives for odbc.ini, drivers what it gives for odbcinst.ini.
\* A failed attempt made a second time.
AttemptsRetrying(do1, a1, do2, a2) ==
  (IF do1 THEN (IF a1.returned THEN << a1 >> ELSE << a1, a1 >>) ELSE <<>>)
    \o (IF do2 THEN (IF a2.returned THEN << a2 >> ELSE << a2, a2 >>) ELSE <<>>)

\* The backend calls of one test_dsn: each selected backend once, in order.
Attempts(do1, a1, do2, a2) ==
  (IF do1 THEN << a1 >> ELSE <<>>) \o (IF do2 THEN << a2 >> ELSE <<>>)

TestDsn(dsn_name, manager, cred, ini, drivers) ==
  LET found == HasSection(ini.store, dsn_name)
                 /\ ini.store[SectionIndex(ini.store, dsn_name)].items # <<>>
      call  == [dsn_name |-> dsn_name, manager |-> manager,
                username |-> cred.username, password |-> cred.password]
      do1   == TriesUnixodbc(manager)
      do2   == TriesIodbc(manager)
  IN  /\ dsn_dict' = ini.store
      /\ warnings' = ini.warnings
      /\ read_error' = FALSE
      /\ UNCHANGED << files, env, cursor, config, upsert >>
      /\ IF ~found
         THEN /\ test' = TestRecord(call, "not_found", <<>>, FALSE)
              /\ pc' = "not_found"
         ELSE \E o1 \in (IF do1 /\ pyodbc_installed THEN ConnectorOutcomes ELSE {"ok"}),
                 o2 \in (IF do2 /\ pyodbc_installed THEN ConnectorOutcomes ELSE {"ok"}) :
              \E a1 \in { BackendAttempt("unixodbc", dsn_name, cred.username, cred.password,
                                         o1, ini.store, drivers) },
                 a2 \in { BackendAttempt("iodbc", dsn_name, cred.username, cred.password,
                                         o2, ini.store, drivers) } :
              \E s1 \in { IF do1 THEN OrSuccess(a1.returned, FALSE) ELSE FALSE } :
              \E s2 \in { IF do2 THEN OrSuccess(a2.returned, s1) ELSE s1 } :
                IF do1 /\ a1.raised
                THEN /\ test' = TestRecord(call, "raised", << a1 >>, FALSE)
                     /\ pc' = "crashed"
                ELSE IF do2 /\ a2.raised
                THEN /\ test' = TestRecord(call, "raised", Attempts(do1, a1, do2, a2), s1)
                     /\ pc' = "crashed"
                ELSE /\ test' = TestRecord(call, "tested", Attempts(do1, a1, do2, a2), s2)
                     /\ pc' = IF s2 THEN "test_succeeded" ELSE "test_failed"

\* run, choice "Test a DSN": list_dsns_grouped without details, a DSN of
\* its list or a typed name, the manager of select_manager, then test_dsn.
MenuTestDsn ==
  /\ pc = "menu"
  /\ \E ini \in { ReadIni(odbcini) }, drivers \in { ReadIni(odbcinst).store } :
     \E groups \in { IF ini.store = <<>> THEN <<>> ELSE GroupByDriver(ini.store) } :
     \E dsns \in { IF ini.store = <<>> THEN <<>>
                   ELSE Flatten(groups, SortedKeys(DOMAIN groups)) } :
       /\ choice' = 1
       /\ driver_dsns' = groups
       /\ numbered_dsns' = dsns
       /\ \E dsn_name \in { dsns[i] : i \in 1..Len(dsns) } \cup { CustomName },
             manager \in SelectManager, cred \in Credentials :
            TestDsn(dsn_name, manager, cred, ini, drivers)

\* The closing menu of test_dsn, "Test the same DSN again" (after a success)
\* or "Try again with different credentials" (after a failure): test_dsn
\* calls itself with the same name and manager.
TestAgain ==
  /\ pc \in {"test_succeeded", "test_failed"}
  /\ pc' = "retest"
  /\ test' = TestRecord(test.call, "retest", <<>>, FALSE)
  /\ UNCHANGED << files, env, cursor, parsed, config, listing, session >>

\* The closing menu after a failure, "Try with a different ODBC manager":
\* select_manager, then test_dsn calls itself with its answer.
TestOtherManager ==
  /\ pc = "test_failed"
  /\ pc' = "retest"
  /\ \E manager \in SelectManager :
       test' = TestRecord([test.call EXCEPT !.manager = manager], "retest", <<>>, FALSE)
  /\ UNCHANGED << files, env, cursor, parsed, config, listing, session >>

\* The call of test_dsn that the closing menu started.
Retest ==
  /\ pc = "retest"
  /\ UNCHANGED << listing, choice >>
  /\ \E ini \in { ReadIni(odbcini) }, drivers \in { ReadIni(odbcinst).store } :
     \E cred \in Credentials :
       TestDsn(test.call.dsn_name, test.call.manager, cred, ini, drivers)

\* Every other choice of the closing menu ends the call, some after showing
\* the details of a driver, and so does "DSN not found or invalid": the
\* program is at the main menu again.
ReturnToMenu ==
  /\ pc \in {"test_succeeded", "test_failed", "not_found", "custom_tested"}
  /\ pc' = "menu"
  /\ test' = NoTest
  /\ UNCHANGED << files, env, cursor, parsed, config, listing, session >>

\* The files of SpecTest: DSN sections whose driver is a path (under two
\* casings of the key), a name, or absent; driver sections whose library
\* path is /x under two casings of the key.
TestDsnBlocks ==
  { << << "[", "A", "]" >> >> \o d :
      d \in { <<>>,
              << << "k", "=", "v" >> >>,
              << << "D", "r", "i", "v", "e", "r", "=", "/", "x" >> >>,
              << << "D", "R", "I", "V", "E", "R", "=", "/", "x" >> >>,
              << << "D", "r", "i", "v", "e", "r", "=", "N" >> >> } }

TestDriverBlocks ==
  { << << "[", "N", "]" >>, << "D", "r", "i", "v", "e", "r", " ", "=", " ", "/", "x" >> >>,
    << << "[", "N", "]" >>, << "d", "r", "i", "v", "e", "r", " ", "=", " ", "/", "x" >> >>,
    << << "[", "M", "]" >>, << "D", "r", "i", "v", "e", "r", " ", "=", " ", "/", "x" >> >> }

\* detect_odbc_managers leaves at least one manager, or exits.
InitTest ==
  /\ odbcini_status = "readable"
  /\ odbcini \in { Concat(blocks) : blocks \in SeqsUpTo(TestDsnBlocks, MaxTestDsns) }
  /\ odbcinst \in { Concat(blocks) : blocks \in SeqsUpTo(TestDriverBlocks, MaxDrivers) }
  /\ odbcinst_selected = TRUE
  /\ has_unixodbc \in BOOLEAN /\ has_iodbc \in BOOLEAN /\ (has_unixodbc \/ has_iodbc)
  /\ pyodbc_installed \in BOOLEAN
  /\ pc = "menu"
  /\ InitRest

NextTest == MenuTestDsn \/ TestAgain \/ TestOtherManager \/ Retest \/ ReturnToMenu

SpecTest == InitTest /\ [][NextTest]_vars

\* ---------------------------------------------- properties of the test

\* A call of test_dsn has ended, with the attempts it made in test.
TestEnded == pc \in {"not_found", "crashed", "test_succeeded", "test_failed"}

\* The section of the tested DSN in the DSN file.
TestedItems == dsn_dict[SectionIndex(dsn_dict, test.call.dsn_name)].items

HasSeparator(value) == \E p \in 1..Len(value) : value[p] \in {"/", "\\"}

\* The attempts of the ended call that got as far as the check of the
\* driver setting.
CheckedAttempts ==
  { i \in 1..Len(test.attempts) : test.attempts[i].connected }

\* C7: for a DSN of the DSN file, every attempt flags the DSN exactly when
\* the value of its driver key (the key "driver" whatever its casing)
\* contains '/' or '\'.
C7_Original ==
  (TestEnded /\ test.status = "tested") =>
    \A i \in CheckedAttempts :
      test.attempts[i].flagged
        <=> (DriverKeys(TestedItems) # {} /\ HasSeparator(DriverValue(TestedItems)))

\* The driver entries, in file order, whose library path (the value of the
\* key "driver" whatever its casing) is the given path.
EntriesWithPath(drivers, path) ==
  { i \in 1..Len(drivers) :
      DriverKeys(drivers[i].items) # {} /\ DriverValue(drivers[i].items) = path }

FirstEntryWithPath(drivers, path) ==
  IF EntriesWithPath(drivers, path) = {} THEN None
  ELSE Some(drivers[CHOOSE i \in EntriesWithPath(drivers, path) :
                      \A j \in EntriesWithPath(drivers, path) : i <= j].name)

\* C8: for a flagged DSN, the corrected driver name is the name of the first
\* driver entry of the driver file whose library path equals the DSN's
\* driver setting, and none when no entry has that path.
C8_Original ==
  (TestEnded /\ test.status = "tested") =>
    \A i \in CheckedAttempts :
      test.attempts[i].flagged =>
        test.attempts[i].correct_driver_name
          = FirstEntryWithPath(ReadIni(odbcinst).store, DriverSetting(TestedItems))

\* The backends a call with this manager has to attempt, in order.
BackendsAsked(manager) ==
  (IF manager = "unixodbc" \/ (manager = "None" /\ has_unixodbc)
   THEN << "unixodbc" >> ELSE <<>>)
  \o (IF manager = "iodbc" \/ (manager = "None" /\ has_iodbc)
      THEN << "iodbc" >> ELSE <<>>)

\* C9: a test of a DSN of the DSN file attempts the backends asked for, each
\* once, unixODBC before iODBC, and every attempt gives a result, whatever
\* the attempts before it gave.
C9_Original ==
  (TestEnded /\ test.status \in {"tested", "raised"}) =>
    /\ [i \in 1..Len(test.attempts) |-> test.attempts[i].backend]
         = BackendsAsked(test.call.manager)
    /\ \A i \in 1..Len(test.attempts) : ~test.attempts[i].raised

\* C10: the overall outcome of a test is success exactly when one of its
\* attempts gave success; a test without attempts is a failure.
C10_OverallIsOr ==
  TestEnded =>
    /\ test.success <=> (\E i \in 1..Len(test.attempts) : test.attempts[i].returned)
    /\ test.status = "tested" => (pc = "test_succeeded" <=> test.success)

\* unixODBC fails, iODBC succeeds: the test is a success.
C10_Witness ==
  /\ pc = "test_succeeded"
  /\ Len(test.attempts) = 2
  /\ ~test.attempts[1].returned
  /\ test.attempts[2].returned
  /\ test.success

\* C14: a test of any DSN name, in the DSN file or not, with keys or
\* without, ends with at least one connection attempt made.
C14_Original == TestEnded => test.attempts # <<>>

\* "DSN=<name>", the descriptor of a test without credentials.
DsnAlone(dsn_name) == << "D", "S", "N", "=" >> \o dsn_name

\* C15: without a credential override every attempt is given "DSN=<name>"
\* alone; a descriptor that is more than that is the name followed by the
\* user name and the password of the override, which both were supplied.
C15_CredentialsOnlyWithOverride ==
  TestEnded =>
    \A i \in 1..Len(test.attempts) :
      LET conn_str == test.attempts[i].conn_str
          call     == test.call
      IN  /\ call.username = None => conn_str = DsnAlone(call.dsn_name)
          /\ conn_str # DsnAlone(call.dsn_name) =>
                /\ call.username # None /\ call.password # None
                /\ conn_str = DsnAlone(call.dsn_name)
                                \o << ";", "U", "I", "D", "=" >> \o call.username[1]
                                \o << ";", "P", "W", "D", "=" >> \o call.password[1]

\* An attempt with the override u / pw reaches the connector, and another
\* one of the same call too.
C15_Witness ==
  /\ test.status = "tested"
  /\ Len(test.attempts) = 2
  /\ test.attempts[1].connected
  /\ test.attempts[1].conn_str
       = << "D", "S", "N", "=", "A", ";", "U", "I", "D", "=", "u", ";", "P", "W", "D", "=", "p", "w" >>

\* The descriptor of a call, from its name and its credentials alone.
Descriptor(call) ==
  IF Truthy(call.username) /\ Truthy(call.password)
  THEN DsnAlone(call.dsn_name) \o << ";", "U", "I", "D", "=" >> \o call.username[1]
         \o << ";", "P", "W", "D", "=" >> \o call.password[1]
  ELSE DsnAlone(call.dsn_name)

\* A step in which a call of test_dsn made its attempts and returned.
TestStep == test' # test /\ test' # NoTest /\ test'.status = "tested"

ListRepr(value) == << "[", "'" >> \o value \o << "'", "]" >>

\* The position of the last "]" of a line, 0 without one.
LastBracket(line) ==
  IF \E p \in 1..Len(line) : line[p] = "]"
  THEN CHOOSE p \in 1..Len(line) : line[p] = "]" /\ \A q \in (p + 1)..Len(line) : line[q] # "]"
  ELSE 0

\* SECTCRE, "\[(?P<header>.+)\]", matched at the start of the stripped line:
\* the text between the first "[" and the last "]" is the header, and it is
\* not stripped.
IsConfigHeader(line) == Len(line) >= 3 /\ line[1] = "[" /\ LastBracket(line) >= 3

ConfigHeader(line) == SubSeq(line, 2, LastBracket(line) - 1)

\* The position of the first delimiter, "=" or ":", of a line, 0 without one.
FirstDelimiter(line) ==
  IF \E p \in 1..Len(line) : line[p] \in {"=", ":"}
  THEN CHOOSE p \in 1..Len(line) :
         line[p] \in {"=", ":"} /\ \A q \in 1..(p - 1) : line[q] \notin {"=", ":"}
  ELSE 0

\* The default section of configparser.
DefaultSection == << "D", "E", "F", "A", "U", "L", "T" >>

\* A ConfigParser before read: no section, no default, no line read.
ConfigInit ==
  [sections |-> <<>>, defaults |-> <<>>, cursect |-> "none", sectname |-> <<>>,
   added |-> {}, aborted |-> FALSE]

\* One line of RawConfigParser._read (strict, "=" and ":" as delimiters, "#"
\* and ";" as comment prefixes, keys kept as written).  A second header of
\* the same name, a second option of the same name in a section, and an
\* option before any header raise at once; a line without delimiter and an
\* option without name are errors that are raised after the last line.  The
\* lines modelled start in column 0, so that none continues a value.
ConfigReadLine(st, raw) ==
  LET line == Strip(raw) IN
  IF st.aborted \/ line = <<>> \/ StartsWith(line, "#") \/ StartsWith(line, ";") THEN st
  ELSE IF IsConfigHeader(line)
  THEN LET name == ConfigHeader(line) IN
       IF << "section", name >> \in st.added THEN [st EXCEPT !.aborted = TRUE]
       ELSE IF name = DefaultSection
       THEN [st EXCEPT !.cursect = "default", !.sectname = name]
       ELSE [st EXCEPT !.sections = StoreSetEmpty(st.sections, name),
                       !.cursect = "section", !.sectname = name,
                       !.added = st.added \cup { << "section", name >> }]
  ELSE IF st.cursect = "none" THEN [st EXCEPT !.aborted = TRUE]
  ELSE IF FirstDelimiter(line) = 0 THEN st
  ELSE LET optname == RStrip(SubSeq(line, 1, FirstDelimiter(line) - 1))
           optval  == Strip(SubSeq(line, FirstDelimiter(line) + 1, Len(line)))
       IN  IF << "option", st.sectname, optname >> \in st.added
           THEN [st EXCEPT !.aborted = TRUE]
           ELSE IF st.cursect = "default"
           THEN [st EXCEPT !.defaults = DictSet(st.defaults, optname, optval),
                           !.added = st.added \cup { << "option", st.sectname, optname >> }]
           ELSE [st EXCEPT
                   !.sections = [st.sections EXCEPT
                                   ![SectionIndex(st.sections, st.sectname)].items =
                                     DictSet(@, optname, optval)],
                   !.added = st.added \cup { << "option", st.sectname, optname >> }]

RECURSIVE ConfigReadFrom(_, _)
ConfigReadFrom(st, lines) ==
  IF lines = <<>> THEN st ELSE ConfigReadFrom(ConfigReadLine(st, Head(lines)), Tail(lines))

\* The values as the parser holds them when _read was left by an exception:
\* one-element lists, never joined.
Unjoined(items) == [i \in 1..Len(items) |-> << items[i][1], ListRepr(items[i][2]) >>]

\* config.read(path) inside "try: ... except: pass": what the ConfigParser
\* holds afterwards, whether or not the read raised.
ConfigRead(lines) ==
  LET st == ConfigReadFrom(ConfigInit, lines) IN
  IF st.aborted
  THEN [sections |-> [i \in 1..Len(st.sections) |->
                        [name |-> st.sections[i].name, items |-> Unjoined(st.sections[i].items)]],
        defaults |-> Unjoined(st.defaults)]
  ELSE [sections |-> st.sections, defaults |-> st.defaults]

\* config.remove_section(name)
RemoveSection(sections, name) == SelectSeq(sections, LAMBDA sec : sec.name # name)

\* if config.has_section(name): config.remove_section(name); then
\* config.add_section(name) and config.set for every field.
UpsertSection(sections, name, fields) ==
  Append(RemoveSection(sections, name), [name |-> name, items |-> fields])

\* What config.write writes: the defaults, when there are any, as a section
\* DEFAULT, then the sections.
ConfigWritten(cfg) ==
  (IF cfg.defaults = <<>> THEN <<>>
   ELSE << [name |-> DefaultSection, items |-> cfg.defaults] >>) \o cfg.sections

\* ------------------------------------------------------ add_dsn, add_driver

MaxUpsertLines == 2

\* The options add_dsn sets on the new section, in its order.
DsnFields(dsn_name, driver_name, host, port, database, username, password) ==
  << << << "D", "e", "s", "c", "r", "i", "p", "t", "i", "o", "n" >>, dsn_name \o << " ", "D", "S", "N" >> >>,
     << << "D", "r", "i", "v", "e", "r" >>, driver_name >>,
     << << "A", "d", "d", "r", "e", "s", "s" >>, host \o << ":" >> \o port >>,
     << << "D", "a", "t", "a", "b", "a", "s", "e" >>, database >>,
     << << "U", "I", "D" >>, username >>,
     << << "P", "W", "D" >>, password >>,
     << << "W", "i", "d", "e", "A", "s", "U", "T", "F", "1", "6" >>, << "Y", "e", "s" >> >>,
     << << "D", "a", "y", "l", "i", "g", "h", "t" >>, << "Y", "e", "s" >> >>,
     << << "R", "o", "u", "n", "d", "R", "o", "b", "i", "n" >>, << "N", "o" >> >>,
     << << "N", "o", "S", "y", "s", "t", "e", "m", "T", "a", "b", "l", "e", "s" >>, << "N", "o" >> >>,
     << << "T", "r", "e", "a", "t", "V", "i", "e", "w", "s", "A", "s", "T", "a", "b", "l", "e", "s" >>, << "N", "o" >> >>,
     << << "P", "w", "d", "C", "l", "e", "a", "r", "T", "e", "x", "t" >>, << "0" >> >> >>

\* The options add_driver sets on the new section, in its order.
DriverFields(driver_name, driver_lib, driver_desc) ==
  << << << "D", "e", "s", "c", "r", "i", "p", "t", "i", "o", "n" >>, driver_desc >>,
     << << "D", "r", "i", "v", "e", "r" >>, driver_lib >>,
     << << "S", "e", "t", "u", "p" >>, driver_lib >>,
     << << "T", "h", "r", "e", "a", "d", "i", "n", "g" >>, << "1" >> >>,
     << << "U", "s", "a", "g", "e", "C", "o", "u", "n", "t" >>, << "1" >> >> >>

\* input(...).strip() or default
OrDefault(typed, default) == IF Strip(typed) = <<>> THEN default ELSE Strip(typed)

\* A write that puts the new content in place whether or not open() was
\* permitted.
WrittenFileAnyway(permitted, old, new) == new

\* The file after write_ini_file: open(filepath, 'w') either is refused, and
\* the file stays as it is, or truncates the file, and config.write fills it.
WrittenFile(permitted, old, new) == IF permitted THEN new ELSE old

\* The value of upsert for a call that reached write_ini_file.
UpsertRecord(kind, name, fields, written) ==
  [kind |-> kind, name |-> name, fields |-> fields, written |-> written]

\* What is typed at "DSN Name:": a name, or nothing.
TypedNames == { << "X" >>, <<>> }

\* The driver names typed at "Enter driver name:" when the list is not used.
CustomDriverNames == { << "M" >>, <<>> }

\* The library paths typed at "Driver library path".
TypedLibraries == { << "/", "x" >>, <<>> }

\* The parser add_dsn and add_driver fill: empty for a file that does not
\* exist, else what config.read leaves in it.
ConfigOf(status, lines) ==
  IF status = "absent" THEN [sections |-> <<>>, defaults |-> <<>>] ELSE ConfigRead(lines)

\* run, choice "Add a new DSN": add_dsn up to its question "Test this DSN
\* now?".  list_drivers gives the drivers to choose from; the connection
\* parameters are left at their defaults.  A name left empty, or a cancelled
\* driver menu, ends the call before anything is read or written.
AddDsn ==
  /\ pc = "menu"
  /\ choice' = 3
  /\ UNCHANGED << odbcinst, odbcinst_selected, env, cursor, parsed, listing, test >>
  /\ \E drivers \in { SectionNames(ReadIni(odbcinst).store) },
        cfg \in { ConfigOf(odbcini_status, odbcini) } :
     \E dsn_name \in TypedNames,
        driver_name \in { drivers[i] : i \in 1..Len(drivers) } \cup CustomDriverNames,
        permitted \in BOOLEAN :
       IF dsn_name = <<>> \/ driver_name = <<>>
       THEN /\ pc' = "add_cancelled"
            /\ UNCHANGED << odbcini, odbcini_status, config, upsert >>
       ELSE \E fields \in { DsnFields(dsn_name, driver_name,
                                      OrDefault(<<>>, << "l", "o", "c", "a", "l", "h", "o", "s", "t" >>), OrDefault(<<>>, << "1", "1", "1", "1" >>),
                                      OrDefault(<<>>, << "D", "B" >>), OrDefault(<<>>, << "d", "b", "a" >>),
                                      << "d", "b", "a" >>) } :
            \E new \in { [cfg EXCEPT !.sections = UpsertSection(@, dsn_name, fields)] } :
              /\ config' = ConfigWritten(new)
              /\ upsert' = UpsertRecord("dsn", dsn_name, fields, permitted)
              /\ odbcini' = WrittenFile(permitted, odbcini, SplitLines(Serialize(config')))
              /\ odbcini_status' = IF permitted THEN "readable" ELSE odbcini_status
              /\ pc' = IF permitted THEN "dsn_created" ELSE "write_failed"

\* add_dsn after "DSN created": the answer y, select_manager, test_dsn.
TestCreatedDsn ==
  /\ pc = "dsn_created"
  /\ UNCHANGED << listing, choice >>
  /\ \E ini \in { ReadIni(odbcini) }, drivers \in { ReadIni(odbcinst).store } :
     \E manager \in SelectManager, cred \in Credentials :
       TestDsn(upsert.name, manager, cred, ini, drivers)

\* run, choice "Register a new driver": add_driver.  A name or a path left
\* empty ends the call, and so does the answer n to "Replace?" when the
\* parser has the section.  Without a driver file selected, self.odbcinst is
\* None and Path(self.odbcinst) raises TypeError, which nothing catches.
AddDriver ==
  /\ pc = "menu"
  /\ choice' = 7
  /\ UNCHANGED << odbcini, odbcini_status, odbcinst_selected, env, cursor, parsed,
                  listing, test >>
  /\ \E cfg \in { ConfigRead(odbcinst) } :
     \E driver_name \in { << "N" >>, <<>> }, driver_lib \in TypedLibraries,
        replace \in BOOLEAN, permitted \in BOOLEAN :
       IF driver_name = <<>> \/ driver_lib = <<>>
       THEN /\ pc' = "add_cancelled"
            /\ UNCHANGED << odbcinst, config, upsert >>
       ELSE IF ~odbcinst_selected
       THEN /\ pc' = "crashed"
            /\ UNCHANGED << odbcinst, config, upsert >>
       ELSE IF HasSection(cfg.sections, driver_name) /\ ~replace
       THEN /\ pc' = "add_cancelled"
            /\ UNCHANGED << odbcinst, config, upsert >>
       ELSE \E fields \in { DriverFields(driver_name, driver_lib,
                                         OrDefault(<<>>, driver_name \o << " ", "O", "D", "B", "C", " ", "D", "r", "i", "v", "e", "r" >>)) } :
            \E new \in { [cfg EXCEPT !.sections = UpsertSection(@, driver_name, fields)] } :
              /\ config' = ConfigWritten(new)
              /\ upsert' = UpsertRecord("driver", driver_name, fields, permitted)
              /\ odbcinst' = WrittenFile(permitted, odbcinst, SplitLines(Serialize(config')))
              /\ pc' = IF permitted THEN "driver_registered" ELSE "write_failed"

\* run after add_dsn or add_driver has returned: "Press Enter to continue",
\* and the main menu again.
BackToMenu ==
  /\ pc \in {"dsn_created", "driver_registered", "write_failed", "add_cancelled",
            "dsn_shown", "drivers_listed", "driver_shown", "reconfigured"}
  /\ pc' = "menu"
  /\ UNCHANGED << files, env, cursor, parsed, config, listing, test, session >>

\* The lines of the files of SpecUpsert: headers, one of them padded inside
\* its brackets, an option, and a line that is neither.
UpsertLinePool ==
  { << "[", "X", "]" >>, << "[", " ", "X", " ", "]" >>, << "[", "Y", "]" >>,
    << "A", "=", "1" >>, << "A" >> }

InitUpsert ==
  /\ odbcini \in SeqsUpTo(UpsertLinePool, MaxUpsertLines)
  /\ odbcini_status \in {"readable", "absent"}
  /\ odbcini_status = "absent" => odbcini = <<>>
  /\ odbcinst = <<>>
  /\ odbcinst_selected = TRUE
  /\ has_unixodbc = TRUE /\ has_iodbc = FALSE /\ pyodbc_installed = TRUE
  /\ pc = "menu"
  /\ InitRest

NextUpsert == AddDsn \/ TestCreatedDsn \/ AddDriver \/ BackToMenu \/ ReturnToMenu

SpecUpsert == InitUpsert /\ [][NextUpsert]_vars

\* ------------------------------------------------ properties of the upserts

\* An add_dsn or add_driver call has just reported its section as written.
UpsertDone == pc \in {"dsn_created", "driver_registered"}

\* The store read_ini_file gives for the file the last upsert wrote to.
UpsertStore ==
  IF upsert.kind = "dsn" THEN ReadIni(odbcini).store ELSE ReadIni(odbcinst).store

FieldSet(items) == { items[i] : i \in 1..Len(items) }

\* C11: after an upsert of section X with the fields F, section X of the
\* store holds exactly F, whatever the file held before.
C11_Original ==
  UpsertDone =>
    /\ HasSection(UpsertStore, upsert.name)
    /\ FieldSet(UpsertStore[SectionIndex(UpsertStore, upsert.name)].items)
         = FieldSet(upsert.fields)

\* C12: a write that is refused leaves both files as they were and is not
\* reported as a created DSN or a registered driver; from there the program
\* only returns to the main menu, without a test and without a write.
C12_FailedWriteNotCommitted ==
  [][ /\ (pc = "menu" /\ pc' = "write_failed") =>
           (~upsert'.written /\ files' = files)
      /\ (pc = "menu" /\ pc' \in {"dsn_created", "driver_registered"}) => upsert'.written
      /\ pc = "write_failed" => (pc' = "menu" /\ test' = test /\ files' = files)
    ]_vars

\* The write of a DSN X was refused and the file still holds the old X.
C12_Witness ==
  /\ pc = "write_failed"
  /\ upsert.kind = "dsn"
  /\ ~upsert.written
  /\ odbcini = << << "[", "X", "]" >>, << "A", "=", "1" >> >>

\* ------------------------------------------------------------ the main loop

\* menu_options of show_menu; menu_select returns the index of the entry
\* under the cursor, counted from 0 over all of them, or -1 for q and ESC.
MenuOptions ==
  << "Show DSN details", "Test a DSN", "Test a custom DSN", "Add a new DSN",
     "-------------", "List installed drivers", "Show driver details",
     "Register a new driver", "-------------", "Reconfigure files", "Refresh", "Exit" >>

MenuChoices == { -1 } \cup { i - 1 : i \in 1..Len(MenuOptions) }

\* The branch of the if/elif chain of run that a choice selects; "none" when
\* it selects no branch and the loop shows the menu again.
Dispatch(c) ==
  IF c = -1 \/ c = 10 THEN "exit"
  ELSE IF c = 0 THEN "show_dsn_details"
  ELSE IF c = 1 THEN "test_dsn"
  ELSE IF c = 2 THEN "test_custom_dsn"
  ELSE IF c = 3 THEN "add_dsn"
  ELSE IF c = 5 THEN "list_drivers"
  ELSE IF c = 6 THEN "show_driver_details"
  ELSE IF c = 7 THEN "add_driver"
  ELSE IF c = 9 THEN "locate_config_files"
  ELSE IF c = 10 THEN "continue"
  ELSE "none"

\* run, "Goodbye!" and sys.exit(0).
MenuExitProgram ==
  /\ pc = "menu"
  /\ \E c \in MenuChoices : Dispatch(c) = "exit" /\ choice' = c
  /\ pc' = "exited"
  /\ UNCHANGED << files, env, cursor, parsed, config, listing, test, upsert >>

\* run, a choice that no branch takes: the loop shows the menu again.
MenuNoBranch ==
  /\ pc = "menu"
  /\ \E c \in MenuChoices : Dispatch(c) \in {"none", "continue"} /\ choice' = c
  /\ pc' = "menu"
  /\ UNCHANGED << files, env, cursor, parsed, config, listing, test, upsert >>

\* run, choice "Show DSN details": the list of show_menu, a DSN of it or a
\* typed name, show_dsn_details; or the DSN menu left with q, or no name typed.
MenuShowDsnDetails ==
  /\ pc = "menu"
  /\ \E c \in MenuChoices : Dispatch(c) = "show_dsn_details" /\ choice' = c
  /\ \E ini \in { ReadIni(odbcini) } :
     \E groups \in { IF ini.store = <<>> THEN <<>> ELSE GroupByDriver(ini.store) } :
       /\ dsn_dict' = ini.store
       /\ warnings' = ini.warnings
       /\ read_error' = FALSE
       /\ driver_dsns' = groups
       /\ numbered_dsns' = IF ini.store = <<>> THEN <<>>
                           ELSE Flatten(groups, SortedKeys(DOMAIN groups))
       /\ \E cancelled \in (IF numbered_dsns' # <<>> THEN BOOLEAN ELSE {FALSE}) :
            pc' = IF cancelled THEN "menu" ELSE "dsn_shown"
  /\ UNCHANGED << files, env, cursor, config, test, upsert >>

\* conn_str of simple_dsn_test.
SimpleConnStr(dsn_name) == << "D", "S", "N", "=" >> \o dsn_name

\* simple_dsn_test: one connection, whatever the manager.  Without pyodbc the
\* import fails and the first handler, "except pyodbc.Error", raises.
SimpleDsnTest(dsn_name, outcome) ==
  [ backend |-> "direct", raised |-> ~pyodbc_installed,
    returned |-> (pyodbc_installed /\ outcome = "ok"),
    connected |-> pyodbc_installed,
    conn_str |-> SimpleConnStr(dsn_name),
    display_conn_str |-> SimpleConnStr(dsn_name),
    flagged |-> FALSE, correct_driver_name |-> None ]

\* run, choice "Test a custom DSN": a typed name, select_manager,
\* test_custom_dsn; nothing without a name or without a manager.
MenuTestCustomDsn ==
  /\ pc = "menu"
  /\ \E c \in MenuChoices : Dispatch(c) = "test_custom_dsn" /\ choice' = c
  /\ UNCHANGED << files, env, cursor, parsed, config, listing, upsert >>
  /\ \E dsn_name \in { CustomName, <<>> },
        manager \in SelectManager \cup (IF has_unixodbc /\ has_iodbc THEN {"cancelled"} ELSE {}) :
       IF dsn_name = <<>> \/ manager = "cancelled"
       THEN pc' = "menu" /\ test' = test
       ELSE \E outcome \in (IF pyodbc_installed THEN ConnectorOutcomes ELSE {"ok"}) :
            \E a \in { SimpleDsnTest(dsn_name, outcome) } :
              /\ test' = TestRecord([dsn_name |-> dsn_name, manager |-> manager,
                                     username |-> None, password |-> None],
                                    IF a.raised THEN "custom_raised" ELSE "custom_tested",
                                    << a >>, a.returned)
              /\ pc' = IF a.raised THEN "crashed" ELSE "custom_tested"

\* run, choice "List installed drivers": list_drivers reads the driver file
\* and prints it.
MenuListDrivers ==
  /\ pc = "menu"
  /\ \E c \in MenuChoices : Dispatch(c) = "list_drivers" /\ choice' = c
  /\ pc' = "drivers_listed"
  /\ UNCHANGED << files, env, cursor, parsed, config, listing, test, upsert >>

\* run, choice "Show driver details": a driver of the driver file or a typed
\* name, show_driver_details; or the driver menu left with q.
MenuShowDriverDetails ==
  /\ pc = "menu"
  /\ \E c \in MenuChoices : Dispatch(c) = "show_driver_details" /\ choice' = c
  /\ \E drivers \in { SectionNames(ReadIni(odbcinst).store) } :
     \E cancelled \in (IF drivers # <<>> THEN BOOLEAN ELSE {FALSE}) :
       pc' = IF cancelled THEN "menu" ELSE "driver_shown"
  /\ UNCHANGED << files, env, cursor, parsed, config, listing, test, upsert >>

\* run, choice "Reconfigure files": locate_config_files with one candidate
\* path for each file.  A DSN file that is there is used as it is; one that
\* is not is created empty on the answer y, and the program exits on any
\* other answer.  A driver file that is there is used as it is; without one
\* it is created empty on the answer y, and on any other answer with no path
\* typed self.odbcinst stays what it was.
MenuReconfigure ==
  /\ pc = "menu"
  /\ \E c \in MenuChoices : Dispatch(c) = "locate_config_files" /\ choice' = c
  /\ UNCHANGED << env, cursor, parsed, config, listing, test, upsert >>
  /\ \E create \in BOOLEAN, create_inst \in BOOLEAN :
       IF odbcini_status = "absent" /\ ~create
       THEN pc' = "exited" /\ UNCHANGED << odbcini, odbcini_status, odbcinst, odbcinst_selected >>
       ELSE /\ pc' = "reconfigured"
            /\ IF odbcini_status = "absent"
               THEN odbcini' = <<>> /\ odbcini_status' = "readable"
               ELSE UNCHANGED << odbcini, odbcini_status >>
            /\ odbcinst' = odbcinst
            /\ odbcinst_selected' = (odbcinst_selected \/ create_inst)

\* The DSN files and the driver files the main loop starts on.
MenuDsnFiles ==
  { <<>>,
    << << "[", "A", "]" >>, << "D", "r", "i", "v", "e", "r", "=", "/", "x" >> >> }

MenuDriverFiles ==
  { << << "[", "N", "]" >>, << "D", "r", "i", "v", "e", "r", " ", "=", " ", "/", "x" >> >> }

\* run: detect_odbc_managers has found unixODBC and locate_config_files has
\* chosen the DSN file and the driver file, or no driver file; pyodbc is
\* installed; the main menu is shown.
InitMenu ==
  /\ odbcini \in MenuDsnFiles
  /\ odbcini_status \in {"readable", "absent"}
  /\ odbcini_status = "absent" => odbcini = <<>>
  /\ \/ odbcinst \in MenuDriverFiles /\ odbcinst_selected = TRUE
     \/ odbcinst = <<>> /\ odbcinst_selected = FALSE
  /\ has_unixodbc = TRUE /\ has_iodbc = FALSE /\ pyodbc_installed = TRUE
  /\ pc = "menu"
  /\ InitRest

NextMenu ==
  \/ MenuExitProgram \/ MenuNoBranch
  \/ MenuShowDsnDetails \/ MenuTestDsn \/ MenuTestCustomDsn \/ AddDsn
  \/ MenuListDrivers \/ MenuShowDriverDetails \/ AddDriver \/ MenuReconfigure
  \/ TestCreatedDsn \/ TestAgain \/ TestOtherManager \/ Retest
  \/ ReturnToMenu \/ BackToMenu

SpecMenu == InitMenu /\ [][NextMenu]_vars

\* Both managers found, pyodbc installed, and of the main menu the two
\* choices that write: every write and every test they lead to, with the
\* closing menu of test_dsn.
InitRetry ==
  /\ odbcini \in MenuDsnFiles
  /\ odbcini_status \in {"readable", "absent"}
  /\ odbcini_status = "absent" => odbcini = <<>>
  /\ odbcinst \in MenuDriverFiles
  /\ odbcinst_selected = TRUE
  /\ has_unixodbc = TRUE /\ has_iodbc = TRUE /\ pyodbc_installed = TRUE
  /\ pc = "menu"
  /\ InitRest

NextRetry ==
  \/ AddDsn \/ AddDriver \/ BackToMenu
  \/ TestCreatedDsn \/ TestAgain \/ TestOtherManager \/ Retest \/ ReturnToMenu

SpecRetry == InitRetry /\ [][NextRetry]_vars

\* ---------------------------------------------- properties of the main loop

\* The label of the entry a choice stands for.
LabelOf(c) == IF c \in 0..(Len(MenuOptions) - 1) THEN MenuOptions[c + 1] ELSE "(quit)"

\* C17: at the main menu, "Exit" and q/ESC end the program, and "Refresh"
\* shows the menu again without ending it.
C17_Original ==
  [][ pc = "menu" =>
        /\ LabelOf(choice') \in {"Exit", "(quit)"} => pc' = "exited"
        /\ LabelOf(choice') = "Refresh" => pc' = "menu" ]_vars

\* The backends of the attempts of a test record.
BackendsOf(record) == [i \in 1..Len(record.attempts) |-> record.attempts[i].backend]

\* C20: nothing is retried by the program itself.  A call that tests makes at
\* most one attempt per backend, and only on the backends it was asked for;
\* after a failed test the next step makes no attempt and changes no file,
\* and a new call starts only from the closing menu; after a refused write
\* the program returns to the main menu without a write or a test.
C20_NoAutomaticRetry ==
  [][ /\ (test' # test /\ test' # NoTest) =>
           /\ \A i, j \in 1..Len(test'.attempts) :
                i # j => BackendsOf(test')[i] # BackendsOf(test')[j]
           /\ test'.status \in {"tested", "raised"} =>
                \A i \in 1..Len(test'.attempts) :
                  \E k \in 1..Len(BackendsAsked(test'.call.manager)) :
                    BackendsOf(test')[i] = BackendsAsked(test'.call.manager)[k]
      /\ pc = "test_failed" =>
           /\ pc' \in {"retest", "menu"}
           /\ files' = files
           /\ test' # NoTest => test'.attempts = <<>>
      /\ pc' = "retest" => pc \in {"test_succeeded", "test_failed"}
      /\ pc = "write_failed" => (pc' = "menu" /\ files' = files /\ test' = test /\ upsert' = upsert)
    ]_vars

\* Both backends were asked, each was tried once and failed, and the program
\* waits at the closing menu.
C20_Witness ==
  /\ pc = "test_failed"
  /\ BackendsOf(test) = << "unixodbc", "iodbc" >>
  /\ ~test.attempts[1].returned /\ ~test.attempts[2].returned

\* ------------------------------------------- properties of the last claims

\* C21: every backend attempt of a test returns a result; none raises, and
\* no test ends the program.
C21_Original ==
  /\ pc # "crashed"
  /\ test # NoTest => \A i \in 1..Len(test.attempts) : ~test.attempts[i].raised

\* C22: the driver value that the list groups the tested DSN under is the
\* one the check of the connection test examines: the DSN is flagged
\* exactly when the group it is listed in is named by a path.
C22_Original ==
  (TestEnded /\ test.status = "tested") =>
    \A i \in CheckedAttempts :
      \A driver \in DOMAIN driver_dsns :
        (\E k \in 1..Len(driver_dsns[driver]) : driver_dsns[driver][k] = test.call.dsn_name)
          => (test.attempts[i].flagged <=> HasSeparator(driver))

\* -------------------------------------------------------------- menu_select

\* Most options of a menu given to menu_select in SpecCursor.
MaxOptions == 12

\* The keys getch can return, as menu_select tells them apart: the two
\* arrows, the three forms of Enter, the three ways to quit, any other key.
Keys == {"KEY_UP", "KEY_DOWN", "\n", "KEY_ENTER", "10", "q", "Q", "ESC", "other"}

EnterKeys == {"\n", "KEY_ENTER", "10"}

QuitKeys == {"q", "Q", "ESC"}

\* Down that stops at the last option.
CursorDownClamped(cur, n) == IF cur < n - 1 THEN cur + 1 ELSE cur

\* KEY_UP: up from the top goes to the bottom.
CursorUp(cur, n) == IF cur > 0 THEN cur - 1 ELSE n - 1

\* KEY_DOWN: down from the bottom goes to the top.
CursorDown(cur, n) == IF cur < n - 1 THEN cur + 1 ELSE 0

\* One turn of the loop of _menu: the screen is drawn, getch returns a key,
\* and the key moves the cursor, ends the menu, or does nothing.
MenuKey ==
  /\ pc = "menu_select"
  /\ \E k \in Keys :
       /\ key' = k
       /\ IF k = "KEY_UP"
          THEN current' = CursorUp(current, menu_len)
                 /\ pc' = "menu_select" /\ menu_result' = menu_result
          ELSE IF k = "KEY_DOWN"
          THEN current' = CursorDown(current, menu_len)
                 /\ pc' = "menu_select" /\ menu_result' = menu_result
          ELSE IF k \in EnterKeys
          THEN menu_result' = current /\ pc' = "menu_returned" /\ current' = current
          ELSE IF k \in QuitKeys
          THEN menu_result' = -1 /\ pc' = "menu_returned" /\ current' = current
          ELSE pc' = "menu_select" /\ UNCHANGED << current, menu_result >>
  /\ menu_len' = menu_len
  /\ UNCHANGED << files, env, parsed, config, listing, test, session >>

\* menu_select is called again, with the same options.
MenuAgain ==
  /\ pc = "menu_returned"
  /\ pc' = "menu_select"
  /\ current' = 0
  /\ key' = NoKey
  /\ menu_result' = NoResult
  /\ menu_len' = menu_len
  /\ UNCHANGED << files, env, parsed, config, listing, test, session >>

\* menu_select(title, options) with a list of options that is not empty:
\* current = 0 and no key read yet.
InitCursor ==
  /\ odbcini = <<>> /\ odbcinst = <<>> /\ odbcini_status = "readable"
  /\ odbcinst_selected = TRUE
  /\ has_unixodbc = TRUE /\ has_iodbc = TRUE /\ pyodbc_installed = TRUE
  /\ dsn_dict = <<>> /\ warnings = <<>> /\ read_error = FALSE
  /\ config = <<>> /\ driver_dsns = <<>> /\ numbered_dsns = <<>>
  /\ test = NoTest /\ upsert = NoUpsert /\ choice = NoChoice
  /\ pc = "menu_select"
  /\ menu_len \in 1..MaxOptions
  /\ current = 0
  /\ key = NoKey
  /\ menu_result = NoResult

NextCursor == MenuKey \/ MenuAgain

SpecCursor == InitCursor /\ [][NextCursor]_vars

\* The cursor after k presses of Down, and of Up.
RECURSIVE DownTimes(_, _, _)
DownTimes(cur, n, k) == IF k = 0 THEN cur ELSE DownTimes(CursorDown(cur, n), n, k - 1)

RECURSIVE UpTimes(_, _, _)
UpTimes(cur, n, k) == IF k = 0 THEN cur ELSE UpTimes(CursorUp(cur, n), n, k - 1)

\* C23: the cursor of menu_select stays within the options; Up and Down
\* wrap around, so that as many of them as there are options lead back to
\* where the cursor was; Enter returns the index under the cursor, q, Q and
\* ESC return -1, and any other key changes nothing.
C23_CursorWraps ==
  [][ pc = "menu_select" =>
        /\ current \in 0..(menu_len - 1) /\ current' \in 0..(menu_len - 1)
        /\ DownTimes(current, menu_len, menu_len) = current
        /\ UpTimes(current, menu_len, menu_len) = current
        /\ key' = "KEY_UP" =>
             /\ current' = (IF current = 0 THEN menu_len - 1 ELSE current - 1)
             /\ pc' = "menu_select"
        /\ key' = "KEY_DOWN" =>
             /\ current' = (IF current = menu_len - 1 THEN 0 ELSE current + 1)
             /\ pc' = "menu_select"
        /\ key' \in EnterKeys => (pc' = "menu_returned" /\ menu_result' = current)
        /\ key' \in QuitKeys => (pc' = "menu_returned" /\ menu_result' = -1)
        /\ key' = "other" => (pc' = "menu_select" /\ current' = current)
    ]_vars

\* Down on the last of several options has put the cursor on the first.
C23_Witness ==
  /\ pc = "menu_select"
  /\ menu_len = MaxOptions
  /\ key = "KEY_DOWN"
  /\ current = 0

\* The sections of a store under other names than the given one.
OtherSections(store, name) == { store[i] : i \in { j \in 1..Len(store) : store[j].name # name } }

\* C24: an upsert that was written leaves every other section that
\* read_ini_file reported for the file in the file, with its name, keys and
\* values.
C24_Original ==
  [][ /\ (pc = "menu" /\ pc' = "dsn_created") =>
           OtherSections(ReadIni(odbcini).store, upsert'.name)
             \subseteq OtherSections(ReadIni(odbcini').store, upsert'.name)
      /\ (pc = "menu" /\ pc' = "driver_registered") =>
           OtherSections(ReadIni(odbcinst).store, upsert'.name)
             \subseteq OtherSections(ReadIni(odbcinst').store, upsert'.name)
    ]_vars

\* Whether t occurs in s as a run of consecutive characters.
HasInfix(s, t) ==
  \E p \in 0..(Len(s) - Len(t)) : \A q \in 1..Len(t) : s[p + q] = t[q]

\* C25: in every call of the connector, by test_dsn or by test_custom_dsn,
\* UID and PWD come together or not at all: the string is
\* DSN=<name>;UID=<u>;PWD=<p> when a user name and a password were both given
\* and not empty, and DSN=<name> otherwise.
C25_UidAndPwdTogether ==
  test # NoTest =>
    \A i \in 1..Len(test.attempts) :
      LET a    == test.attempts[i]
          u    == test.call.username
          p    == test.call.password
          both == /\ u # None /\ u[1] # <<>>
                  /\ p # None /\ p[1] # <<>>
      IN  a.connected =>
            /\ HasInfix(a.conn_str, << "U", "I", "D", "=" >>) <=> HasInfix(a.conn_str, << "P", "W", "D", "=" >>)
            /\ both => a.conn_str = << "D", "S", "N", "=" >> \o test.call.dsn_name
                                      \o << ";", "U", "I", "D", "=" >> \o u[1] \o << ";", "P", "W", "D", "=" >> \o p[1]
            /\ ~both => a.conn_str = << "D", "S", "N", "=" >> \o test.call.dsn_name
            /\ a.backend = "direct" => a.conn_str = << "D", "S", "N", "=" >> \o test.call.dsn_name

\* A user name with an empty password: the connector is called with the name
\* of the DSN alone.
C25_Witness ==
  /\ test # NoTest
  /\ test.status = "tested"
  /\ test.call.username = Some(<< "u" >>)
  /\ test.call.password = Some(<<>>)
  /\ test.attempts[1].connected
  /\ test.attempts[1].conn_str = << "D", "S", "N", "=", "A" >>

\* What a call of test_dsn_unixodbc or test_dsn_iodbc prints about its
\* connection string up to the call of the connector: the "Debug:" lines of
\* the start, of a corrected driver name, and of the attempt.
PrintedBeforeConnect(a) ==
  IF ~a.connected THEN <<>>
  ELSE << << "D", "e", "b", "u", "g", ":", " " >> \o (IF a.backend = "unixodbc" THEN << "u", "n", "i", "x", "O", "D", "B", "C" >> ELSE << "i", "O", "D", "B", "C" >>)
            \o << " ", "c", "o", "n", "n", "e", "c", "t", "i", "o", "n", " ", "s", "t", "r", "i", "n", "g", ":", " " >> \o a.display_conn_str >>
       \o (IF a.correct_driver_name # None
           THEN << << "D", "e", "b", "u", "g", ":", " ", "U", "s", "i", "n", "g", " ", "c", "o", "r", "r", "e", "c", "t", "e", "d", " ", "c", "o", "n", "n", "e", "c", "t", "i", "o", "n", " ", "s", "t", "r", "i", "n", "g", ":", " " >> \o a.display_conn_str >>
           ELSE <<>>)
       \o << << "D", "e", "b", "u", "g", ":", " ", "A", "t", "t", "e", "m", "p", "t", "i", "n", "g", " ", "c", "o", "n", "n", "e", "c", "t", "i", "o", "n", " ", "w", "i", "t", "h", ":", " ", "p", "y", "o", "d", "b", "c", ".", "c", "o", "n", "n", "e", "c", "t", "(", "'" >> \o a.conn_str \o << "'", ")" >> >>

\* C26: no line a test prints holds the password of the credential
\* override in clear.
C26_Original ==
  (TestEnded /\ Truthy(test.call.password)) =>
    \A i \in 1..Len(test.attempts) :
      \A k \in 1..Len(PrintedBeforeConnect(test.attempts[i])) :
        ~HasInfix(PrintedBeforeConnect(test.attempts[i])[k], test.call.password[1])

\* C27: with the connector library installed, every choice of the main menu
\* ends at the main menu again, or at the exit the user asked for, whatever
\* locate_config_files has left as the DSN file and the driver file: no
\* operation ends the program with an error.
C27_Original == pyodbc_installed => pc # "crashed"

====
